---- MODULE Spec2Model ----
(***************************************************************************)
(* A model of bokeh/plotting.py: the four module-level globals             *)
(* (_default_document, _default_session, _default_file, _default_notebook) *)
(* and the module-level functions that read and write them.                *)
(*                                                                         *)
(* Every action is one call of a public function.  The call and its        *)
(* arguments are recorded in lastOp, and the externally visible effects of *)
(* the call (warnings, session calls, file writes, notebook publications,  *)
(* browser opens, raised exceptions), in program order, in trace.          *)
(*                                                                         *)
(* Python's None is the empty sequence <<>> and a non-None value x is      *)
(* <<x>>, so that "if v:" / "if not v:" is v # None / v = None.            *)
(*                                                                         *)
(* The collaborators (Document, Session, Resources, embed, browserlib,     *)
(* the glyph functions) are known by the calls made on them.  Their calls  *)
(* return: a transport error of a Session is not part of the model.        *)
(* Strings that are passed (filenames, titles, urls, names) are not empty, *)
(* objects are truthy, and show() is called with new "tab" or "window".    *)
(***************************************************************************)
EXTENDS Naturals, Sequences, FiniteSets

VARIABLES
    _default_document,  \* the current Document: [id, children, current, autostore]
    _default_session,   \* None or <<[name, root_url]>>
    _default_file,      \* None or <<[filename, resources, autosave, title]>>
    _default_notebook,  \* None or <<TRUE>>
    nplots,             \* how many Plot objects (figures, grids) exist: ids 1..nplots
    fig,                \* <<the Figure the last call constructed>>, None if none
    lastOp,             \* the last call: its name and arguments
    trace               \* the effects of the last call, in order

vars == <<_default_document, _default_session, _default_file, _default_notebook,
          nplots, fig, lastOp, trace>>

globals == <<_default_document, _default_session, _default_file, _default_notebook>>

-----------------------------------------------------------------------------
(* Bounds of the model *)

\* reset_output() is called at most MaxResets times (each makes a new Document)
MaxResets == 1
\* at most MaxPlots Plot objects (figures and grids) are ever constructed, and
\* at most FewPlots where the calls are made with many arguments
MaxPlots == 3
FewPlots == 2
\* a tools string has at most MaxLen lexemes, a tools list at most MaxItems items
MaxLen == 5
MaxItems == 3

-----------------------------------------------------------------------------
(* Values *)

None == <<>>
Some(x) == <<x>>

DEFAULT_SERVER_URL == "http://localhost:5006/"

\* the arguments the calls are made with
Filenames == {"a.html", "b.html"}
Titles    == {"Bokeh Plot", "My Title"}
Modes     == {"inline", "cdn"}
Docnames  == {"d1", "d2"}
Urls      == {"http://u1/"}
Names     == {"n1"}
NewModes  == {"tab", "window"}

\* an object a caller can hold: a plot/widget, a Document, or anything else
PlotObj(n)   == [kind |-> "plot", n |-> n]
DocObj(n)    == [kind |-> "doc", n |-> n]       \* a Document made by this module
UserDoc      == [kind |-> "userdoc", n |-> 0]   \* a Document the caller made
WrapDoc(n)   == [kind |-> "wrapdoc", n |-> n]   \* Document() holding only plot n
OtherObj     == [kind |-> "other", n |-> 0]     \* neither Widget nor Document

IsWidget(o)   == o.kind = "plot"
IsDocument(o) == o.kind \in {"doc", "userdoc", "wrapdoc"}

\* a Session the caller constructed and passes explicitly
UserSession == [name |-> Some("mine"), root_url |-> Some("http://mine/")]

\* Document(): a new, empty document
Document(id) == [id |-> id, children |-> {}, current |-> None, autostore |-> TRUE]

\* Session(name=name, root_url=url)
Session(name, url) == [name |-> name, root_url |-> url]

-----------------------------------------------------------------------------
(* Calls and their effects *)

\* the arguments of a call; the fields a function does not take stay as here
NoArg == [filename |-> None, resources |-> None, obj |-> None, title |-> None,
          session |-> None, document |-> None, url |-> None, name |-> None,
          docname |-> None, new |-> None, autosave |-> FALSE, exists |-> FALSE,
          clear |-> FALSE, plots |-> {},
          tools |-> None, x_range |-> "", y_range |-> ""]

Call(op, args) == [op |-> op, args |-> args]

\* one effect: ev is what happened, the other fields are its arguments
Ev(ev, s, s2, s3, obj, sess, n) ==
    [ev |-> ev, s |-> s, s2 |-> s2, s3 |-> s3, obj |-> obj, sess |-> sess, n |-> n]

Warn(kind)            == Ev("warn", kind, "", "", None, None, 0)
Raise(kind)           == Ev("raise", kind, "", "", None, None, 0)
PrintEv(what, f)      == Ev("print", what, f, "", None, None, 0)
NewSession(sess)      == Ev("Session", "", "", "", None, Some(sess), 0)
UseDoc(sess, dn)      == Ev("use_doc", dn, "", "", None, Some(sess), 0)
LoadDocument(sess, d) == Ev("load_document", "", "", "", Some(d), Some(sess), 0)
ClearDoc(d)           == Ev("clear", "", "", "", Some(d), None, 0)
Store(sess, d)        == Ev("store_document", "", "", "", Some(d), Some(sess), 0)
WriteFile(f, d, r, t) == Ev("write", f, r, t, Some(d), None, 0)
Publish(how, o, sess) == Ev("publish", how, "", "", Some(o), sess, 0)
Open(how, tgt, n)     == Ev("open", how, tgt, "", None, None, n)
LoadNotebook          == Ev("load_notebook", "", "", "", None, None, 0)
Draw(d)               == Ev("draw", "", "", "", Some(d), None, 0)
NewPlot(how, n)       == Ev("new_plot", how, "", "", Some(PlotObj(n)), None, 0)

Return(what)          == Ev("return", what, "", "", None, None, 0)
LoadObject(sess, o, d) == Ev("load_object", "", "", "", Some(o), Some(sess), d.n)

\* the call ended in an exception
Raised(tr) == tr # <<>> /\ tr[Len(tr)].ev = "raise"

-----------------------------------------------------------------------------
(* Accessors *)

\* curdoc(), outside a server request: the module-level document
curdoc == _default_document

\* the Document object doc is, as a caller holds it
DocOf(doc) == DocObj(doc.id)

\* curplot() on document doc: its current plot, or None
curplot(doc) == IF doc.current = None THEN None ELSE Some(PlotObj(doc.current[1]))

cursession == _default_session

-----------------------------------------------------------------------------
(* push(session=None, document=None), on the current document doc *)

\* the default session preferred to the one that was passed
PushSession_DefaultFirst(session) == IF cursession # None THEN cursession ELSE session

\* "if not session: session = cursession()"
PushSession(session) == IF session = None THEN cursession ELSE session

\* "if not document: document = curdoc()"; the function does not use the result
PushDocument(doc, document) == IF document = None THEN Some(DocOf(doc)) ELSE document

\* the argument of store_document: "session.store_document(curdoc())"
PushStored(doc, document) == DocOf(doc)

PushEffects(doc, session, document) ==
    IF PushSession(session) # None
    THEN <<Store(PushSession(session)[1], PushStored(doc, document))>>
    ELSE <<Warn("nothing pushed")>>

-----------------------------------------------------------------------------
(* save(filename=None, resources=None, obj=None, title=None) *)

INLINE == "inline"

\* "if filename is None and _default_file: filename = _default_file['filename']"
SaveFilename(filename) ==
    IF filename = None /\ _default_file # None
    THEN Some(_default_file[1].filename) ELSE filename

SaveResources(resources) ==
    IF resources = None /\ _default_file # None
    THEN Some(_default_file[1].resources) ELSE resources

SaveTitle(title) ==
    IF title = None /\ _default_file # None
    THEN Some(_default_file[1].title) ELSE title

\* every object that is not a plot is written as if it were a Document
SaveDocEffects_AnyObject(doc, obj, f, r, t) ==
    IF obj = None
    THEN IF curplot(doc) = None
         THEN <<Warn("no plot to save")>>
         ELSE <<WriteFile(f, DocOf(doc), r, t)>>
    ELSE IF IsWidget(obj[1])
    THEN <<WriteFile(f, WrapDoc(obj[1].n), r, t)>>
    ELSE <<WriteFile(f, obj[1], r, t)>>

\* the document that is serialized, or None with the reason it is not
SaveDocEffects(doc, obj, f, r, t) ==
    IF obj = None
    THEN IF curplot(doc) = None
         THEN <<Warn("no plot to save")>>
         ELSE <<WriteFile(f, DocOf(doc), r, t)>>
    ELSE IF IsWidget(obj[1])
    THEN <<WriteFile(f, WrapDoc(obj[1].n), r, t)>>
    ELSE IF IsDocument(obj[1])
    THEN <<WriteFile(f, obj[1], r, t)>>
    ELSE <<Raise("RuntimeError")>>

\* save() with the filename test after the resources and title tests
SaveEffects_LateTest(doc, filename, resources, obj, title) ==
    LET f == SaveFilename(filename)
        r == SaveResources(resources)
        t == SaveTitle(title)
    IN  (IF r = None THEN <<Warn("no resources")>> ELSE <<>>)
        \o (IF t = None THEN <<Warn("no title")>> ELSE <<>>)
        \o (IF f = None
            THEN <<Warn("nothing saved")>>
            ELSE SaveDocEffects(doc, obj, f[1],
                                IF r = None THEN INLINE ELSE r[1],
                                IF t = None THEN "Bokeh Plot" ELSE t[1]))

SaveEffects(doc, filename, resources, obj, title) ==
    LET f == SaveFilename(filename)
        r == SaveResources(resources)
        t == SaveTitle(title)
    IN  IF f = None
        THEN <<Warn("nothing saved")>>
        ELSE (IF r = None THEN <<Warn("no resources")>> ELSE <<>>)
             \o (IF t = None THEN <<Warn("no title")>> ELSE <<>>)
             \o SaveDocEffects(doc, obj, f[1],
                               IF r = None THEN INLINE ELSE r[1],
                               IF t = None THEN "Bokeh Plot" ELSE t[1])

-----------------------------------------------------------------------------
(* show(obj=None, browser=None, new="tab", url=None) *)

\* "new_param = {'tab': 2, 'window': 1}[new]"
NewParam(new) == IF new = "tab" THEN 2 ELSE 1

\* the object shown: obj, else the current plot (notebook) or document
ShowPlot(doc, obj) ==
    IF obj = None
    THEN IF _default_notebook # None THEN curplot(doc) ELSE Some(DocOf(doc))
    ELSE obj

\* the chain with the server branch tested before the notebook branches
ShowPath_ServerFirst(notebook, session, filename) ==
    IF session # None THEN "server"
    ELSE IF notebook # None THEN "notebook"
    ELSE IF filename # None THEN "file"
    ELSE "none"

\* the chain with the file branch tested first
ShowPath_FileFirst(notebook, session, filename) ==
    IF filename # None THEN "file"
    ELSE IF notebook # None /\ session # None THEN "server+notebook"
    ELSE IF notebook # None THEN "notebook"
    ELSE IF session # None THEN "server"
    ELSE "none"

\* the branch of show()'s if/elif chain that is taken; "elif filename" is
\* "filename # None" for the filenames of the model, none of which is empty
ShowPath(notebook, session, filename) ==
    IF notebook # None /\ session # None THEN "server+notebook"
    ELSE IF notebook # None THEN "notebook"
    ELSE IF session # None THEN "server"
    ELSE IF filename # None THEN "file"
    ELSE "none"

ShowFilename == IF _default_file # None THEN Some(_default_file[1].filename) ELSE None

ShowEffects(doc, obj, new, url) ==
    LET filename == ShowFilename
        session  == cursession
        notebook == _default_notebook
        plot     == ShowPlot(doc, obj)
        path     == ShowPath(notebook, session, filename)
    IN  IF plot = None THEN <<Warn("no plot to show")>>
        ELSE IF path = "server+notebook"
        THEN PushEffects(doc, session, None)
             \o <<Publish("autoload_server", plot[1], cursession)>>
        ELSE IF path = "notebook"
        THEN <<Publish("notebook_div", plot[1], None)>>
        ELSE IF path = "server"
        THEN PushEffects(doc, None, None)
             \o (IF url # None
                 THEN <<Open("url", url[1], NewParam(new))>>
                 ELSE <<Open("object_link", "", 0)>>)   \* open() without new
        ELSE IF path = "file"
        THEN LET sv == SaveEffects(doc, filename, None, plot, None)
             IN  IF Raised(sv) THEN sv
                 ELSE sv \o <<Open("file", filename[1], NewParam(new))>>
        ELSE <<>>

-----------------------------------------------------------------------------
(* reset_output() *)

\* "_default_document = Document()": an object that did not exist before
ResetDocument == Document(_default_document.id + 1)

\* a reset that forgets to drop the session
ResetSession_Kept == _default_session

ResetSession  == None
ResetFile     == None
ResetNotebook == None

reset_output ==
    /\ _default_document.id < MaxResets
    /\ _default_document' = ResetDocument
    /\ _default_session'  = ResetSession
    /\ _default_file'     = ResetFile
    /\ _default_notebook' = ResetNotebook
    /\ lastOp' = Call("reset_output", NoArg)
    /\ trace'  = <<>>
    /\ fig' = None
    /\ UNCHANGED <<nplots>>

-----------------------------------------------------------------------------
(* output_file(filename, title, autosave, mode, root_dir) *)

\* Resources(mode=mode, root_dir=root_dir), known by its mode
Resources(mode) == mode

\* a config that is updated instead of replaced: the first title stays
FileConfig_Merged(filename, title, autosave, mode) ==
    [filename |-> filename, resources |-> Resources(mode), autosave |-> autosave,
     title |-> IF _default_file # None THEN _default_file[1].title ELSE title]

\* the dict assigned to _default_file
FileConfig(filename, title, autosave, mode) ==
    [filename |-> filename, resources |-> Resources(mode),
     autosave |-> autosave, title |-> title]

\* exists: os.path.isfile(filename), which the file system decides
output_file(filename, title, autosave, mode, exists) ==
    /\ _default_file' = Some(FileConfig(filename, title, autosave, mode))
    /\ lastOp' = Call("output_file",
                      [NoArg EXCEPT !.filename = Some(filename), !.title = Some(title),
                                    !.autosave = autosave, !.resources = Some(mode),
                                    !.exists = exists])
    /\ trace'  = IF exists THEN <<PrintEv("already exists", filename)>> ELSE <<>>
    /\ fig' = None
    /\ UNCHANGED <<_default_document, _default_session, _default_notebook, nplots>>

-----------------------------------------------------------------------------
(* output_server(docname, session=None, url="default", name=None, clear=True) *)

\* "if url == 'default': url = DEFAULT_SERVER_URL"
ServerUrl(url) == IF url = Some("default") THEN Some(DEFAULT_SERVER_URL) ELSE url

\* "if name is None: name = url"
ServerName(name, url) == IF name = None THEN ServerUrl(url) ELSE name

\* a default session is constructed
ServerCreates(session) == session = None /\ _default_session = None

\* _default_session after the call
ServerDefault(session, url, name) ==
    IF ServerCreates(session)
    THEN Some(Session(ServerName(name, url), ServerUrl(url)))
    ELSE _default_session

\* the session use_doc and load_document are called on
ServerSession(session, url, name) ==
    IF session = None THEN ServerDefault(session, url, name)[1] ELSE session[1]

\* Document.clear(): the document keeps no plot; keep says whether curplot()
\* still answers the plot that was current
ClearedDocument(doc, keep) ==
    [doc EXCEPT !.children = {}, !.current = IF keep THEN @ ELSE None]

\* clearing by making a new Document the default document
ServerDocument_Replaced(doc, clear, keep) == IF clear THEN Document(doc.id + 1) ELSE doc

\* "if clear: curdoc().clear()"
ServerDocument(doc, clear, keep) == IF clear THEN ClearedDocument(doc, keep) ELSE doc

ServerEffects(doc, docname, session, url, name, clear) ==
    LET sess == ServerSession(session, url, name)
    IN  (IF ServerCreates(session) THEN <<NewSession(sess)>> ELSE <<>>)
        \o <<UseDoc(sess, docname), LoadDocument(sess, DocOf(doc))>>
        \o (IF clear THEN <<ClearDoc(DocOf(doc))>> ELSE <<>>)

output_server(docname, session, url, name, clear, keep) ==
    /\ _default_session'  = ServerDefault(session, url, name)
    /\ _default_document' = ServerDocument(curdoc, clear, keep)
    /\ lastOp' = Call("output_server",
                      [NoArg EXCEPT !.docname = Some(docname), !.session = session,
                                    !.url = url, !.name = name, !.clear = clear])
    /\ trace'  = ServerEffects(curdoc, docname, session, url, name, clear)
    /\ fig' = None
    /\ UNCHANGED <<_default_file, _default_notebook, nplots>>

-----------------------------------------------------------------------------
(* output_notebook(url=None, docname=None, session=None, name=None, force=False) *)

\* "if session or url or name:"
NotebookServer(session, url, name) == session # None \/ url # None \/ name # None

\* "if docname is None: docname = 'IPython Session at %s' % time.ctime()"
NotebookDocname(docname) ==
    IF docname = None THEN "IPython Session at <time>" ELSE docname[1]

NotebookFlag == Some(TRUE)

output_notebook(url, docname, session, name, keep) ==
    /\ IF NotebookServer(session, url, name)
       THEN /\ _default_session'  = ServerDefault(session, url, name)
            /\ _default_document' = ServerDocument(curdoc, TRUE, keep)
            /\ trace' = ServerEffects(curdoc, NotebookDocname(docname),
                                      session, url, name, TRUE)
       ELSE /\ trace' = <<LoadNotebook>>
            /\ UNCHANGED <<_default_session, _default_document>>
    /\ _default_notebook' = NotebookFlag
    /\ lastOp' = Call("output_notebook",
                      [NoArg EXCEPT !.docname = docname, !.session = session,
                                    !.url = url, !.name = name])
    /\ fig' = None
    /\ UNCHANGED <<_default_file, nplots>>

-----------------------------------------------------------------------------
(* Figure.__init__: the tools of a new Figure *)

\* A string is the sequence of its lexemes: tool names, commas and blanks.
Comma == ","
Blank == " "

\* DEFAULT_TOOLS = "pan,wheel_zoom,box_zoom,save,resize,reset"
DEFAULT_TOOLS ==
    <<"pan", Comma, "wheel_zoom", Comma, "box_zoom", Comma, "save", Comma,
      "resize", Comma, "reset">>

\* the tools argument: a string, or a list of Tool instances, strings and others
StrTools(str)    == [form |-> "str", str |-> str, items |-> <<>>]
ListTools(items) == [form |-> "list", str |-> <<>>, items |-> items]

ToolItem(cls)  == [kind |-> "Tool", cls |-> cls, str |-> <<>>]
StrItem(str)   == [kind |-> "str", cls |-> "", str |-> str]
OtherItem      == [kind |-> "other", cls |-> "", str |-> <<>>]

\* _tool_from_string: the class of the tool a name makes, "" for no known name
ToolClassOf(name) ==
    CASE name = "pan"        -> "PanTool"
      [] name = "wheel_zoom" -> "WheelZoomTool"
      [] name = "box_zoom"   -> "BoxZoomTool"
      [] name = "save"       -> "PreviewSaveTool"
      [] name = "resize"     -> "ResizeTool"
      [] name = "reset"      -> "ResetTool"
      [] OTHER               -> ""

\* the class names, as sorted() orders them
ToolClasses ==
    <<"BoxZoomTool", "PanTool", "PreviewSaveTool", "ResetTool", "ResizeTool",
      "WheelZoomTool">>

\* a tool of the Figure: its class, and the name it was made from ("" if passed)
ToolObj(cls, name) == [cls |-> cls, name |-> name]

\* _get_range(range): what the range argument makes
GetRange(range) ==
    CASE range = "factors" -> "FactorRange"
      [] range = "numbers" -> "Range1d"
      [] OTHER             -> "DataRange1d"

\* str.strip() on the left and on the right
RECURSIVE StripLeft(_)
StripLeft(str) ==
    IF str # <<>> /\ str[1] = Blank THEN StripLeft(Tail(str)) ELSE str

RECURSIVE StripRight(_)
StripRight(str) ==
    IF str # <<>> /\ str[Len(str)] = Blank
    THEN StripRight(SubSeq(str, 1, Len(str) - 1)) ELSE str

Strip(str) == StripRight(StripLeft(str))

\* str.split(","): the pieces between the commas
RECURSIVE Pieces(_, _)
Pieces(str, piece) ==
    IF str = <<>> THEN <<piece>>
    ELSE IF str[1] = Comma THEN <<piece>> \o Pieces(Tail(str), <<>>)
    ELSE Pieces(Tail(str), Append(piece, str[1]))

\* re.split(r"\s*,\s*", tools.strip()): the blanks around a comma go with it
SplitTools(str) ==
    LET ps == Pieces(Strip(str), <<>>)
    IN  [i \in 1..Len(ps) |->
            IF Len(ps) = 1 THEN ps[i]
            ELSE IF i = 1 THEN StripRight(ps[i])
            ELSE IF i = Len(ps) THEN StripLeft(ps[i])
            ELSE Strip(ps[i])]

\* "pan" in tool or "zoom" in tool
HasPanZoom(tool) ==
    \E i \in 1..Len(tool) : tool[i] \in {"pan", "wheel_zoom", "box_zoom"}

\* the first loop, over a list: Tool instances are kept, strings are joined
\* with a comma after each, and anything else is an error
RECURSIVE ListObjs(_)
ListObjs(items) ==
    IF items = <<>> THEN <<>>
    ELSE (IF items[1].kind = "Tool" THEN <<ToolObj(items[1].cls, "")>> ELSE <<>>)
         \o ListObjs(Tail(items))

RECURSIVE ListString(_)
ListString(items) ==
    IF items = <<>> THEN <<>>
    ELSE (IF items[1].kind = "str" THEN items[1].str \o <<Comma>> ELSE <<>>)
         \o ListString(Tail(items))

ListInvalid(items) == \E i \in 1..Len(items) : items[i].kind = "other"

\* "remove_pan_zoom = isinstance(x_range, FactorRange) or isinstance(y_range, ...)"
RemovePanZoom(x_range, y_range) ==
    GetRange(x_range) = "FactorRange" \/ GetRange(y_range) = "FactorRange"

\* the second loop, over the split string
RECURSIVE ToolLoop(_, _, _)
ToolLoop(toks, remove, acc) ==
    IF toks = <<>> \/ acc.raised THEN acc
    ELSE LET tool == toks[1]
         IN  IF tool = <<>> THEN ToolLoop(Tail(toks), remove, acc)
             ELSE IF remove /\ HasPanZoom(tool)
             THEN ToolLoop(Tail(toks), remove,
                           [acc EXCEPT !.removed = Append(@, tool)])
             ELSE IF Len(tool) = 1 /\ ToolClassOf(tool[1]) # ""
             THEN ToolLoop(Tail(toks), remove,
                           [acc EXCEPT !.objs = Append(@, ToolObj(ToolClassOf(tool[1]),
                                                                  tool[1]))])
             ELSE [acc EXCEPT !.raised = TRUE]

\* the class names in the order of the tools, not sorted
SortedNames_Unsorted(objs) == [i \in 1..Len(objs) |-> objs[i].cls]

\* sorted([tool.__class__.__name__ for tool in self.tools])
SortedNames(objs) ==
    LET Rec[i \in 0..Len(ToolClasses)] ==
            IF i = 0 THEN <<>>
            ELSE Rec[i - 1] \o
                 [k \in 1..Cardinality({j \in 1..Len(objs) : objs[j].cls = ToolClasses[i]})
                     |-> ToolClasses[i]]
    IN  Rec[Len(ToolClasses)]

\* itertools.groupby: the runs of equal names, each with its length
RECURSIVE GroupBy(_)
GroupBy(names) ==
    IF names = <<>> THEN <<>>
    ELSE LET rest == GroupBy(Tail(names))
         IN  IF rest # <<>> /\ rest[1].key = names[1]
             THEN <<[key |-> names[1], len |-> rest[1].len + 1]>> \o Tail(rest)
             ELSE <<[key |-> names[1], len |-> 1]>> \o rest

\* "if len(list(group)) > 1: repeated_tools.append(typename)"
RECURSIVE Repeated(_)
Repeated(groups) ==
    IF groups = <<>> THEN <<>>
    ELSE (IF groups[1].len > 1 THEN <<groups[1].key>> ELSE <<>>) \o Repeated(Tail(groups))

\* the tools a Figure ends with
FigureTools(objs) == objs

\* Figure(tools=tools, x_range=x_range, y_range=y_range): what is made, or raised
NewFigure(tools, x_range, y_range) ==
    LET isList == tools.form = "list"
        str    == IF isList THEN ListString(tools.items) ELSE tools.str
        first  == IF isList THEN ListObjs(tools.items) ELSE <<>>
        remove == RemovePanZoom(x_range, y_range)
        loop   == ToolLoop(SplitTools(str), remove,
                           [objs |-> first, removed |-> <<>>, raised |-> FALSE])
        objs   == FigureTools(loop.objs)
    IN  [raised   |-> (isList /\ ListInvalid(tools.items)) \/ loop.raised,
         x_range  |-> GetRange(x_range),
         y_range  |-> GetRange(y_range),
         tools    |-> objs,
         repeated |-> Repeated(GroupBy(SortedNames(objs))),
         removed  |-> loop.removed]

\* the warnings of a Figure that was made, in order
FigureEffects(f) ==
    (IF f.repeated # <<>> THEN <<Warn("tools repeated")>> ELSE <<>>)
    \o (IF f.removed # <<>> THEN <<Warn("pan and zoom removed")>> ELSE <<>>)

-----------------------------------------------------------------------------
(* figure(), the glyph wrappers and gridplot() *)

\* "curdoc()._current_plot = fig; curdoc().add(fig)"
WithPlot(doc, n) == [doc EXCEPT !.current = Some(n), !.children = @ \cup {n}]

\* figure(tools=tools, x_range=x_range, y_range=y_range)
figure(tools, x_range, y_range) ==
    LET f == NewFigure(tools, x_range, y_range)
    IN  /\ nplots < MaxPlots
        /\ lastOp' = Call("figure", [NoArg EXCEPT !.tools = Some(tools),
                                                  !.x_range = x_range,
                                                  !.y_range = y_range])
        /\ IF f.raised
           THEN /\ trace' = <<Raise("ValueError")>>
                /\ fig' = None
                /\ UNCHANGED <<_default_document, nplots>>
           ELSE /\ nplots' = nplots + 1
                /\ fig' = Some(f)
                /\ _default_document' = WithPlot(curdoc, nplots + 1)
                /\ trace' = FigureEffects(f) \o <<NewPlot("Figure", nplots + 1)>>
        /\ UNCHANGED <<_default_session, _default_file, _default_notebook>>

\* a push whenever there is a session, whatever autostore says
AutoPush_Always(doc) == cursession # None

\* "if cursession() and curdoc().autostore:"
AutoPush(doc) == cursession # None /\ doc.autostore

\* "if _default_file and _default_file['autosave']:"
AutoSave == _default_file # None /\ _default_file[1].autosave

\* _push_or_save(), and the same two statements of _plot_function
PushOrSaveEffects(doc) ==
    (IF AutoPush(doc) THEN PushEffects(doc, None, None) ELSE <<>>)
    \o (IF AutoSave THEN SaveEffects(doc, None, None, None, None) ELSE <<>>)

\* _plot_function(gf.<glyph>, ...): the glyph function draws on the current
\* document; fresh says whether it made a plot because there was no current
\* one, which is the glyph function's business: both are possible here
glyph(fresh) ==
    /\ fresh => curdoc.current = None /\ nplots < MaxPlots
    /\ nplots' = IF fresh THEN nplots + 1 ELSE nplots
    /\ _default_document' = IF fresh THEN WithPlot(curdoc, nplots + 1) ELSE curdoc
    /\ lastOp' = Call("glyph", NoArg)
    /\ trace'  = (IF fresh THEN <<NewPlot("Figure", nplots + 1)>> ELSE <<>>)
                 \o <<Draw(DocOf(curdoc))>>
                 \o PushOrSaveEffects(_default_document')
    /\ fig' = None
    /\ UNCHANGED <<_default_session, _default_file, _default_notebook>>

\* the grid is added and made current, and the subplots stay where they are
Deduplicated_Added(doc, plot, subplots) ==
    [doc EXCEPT !.children = @ \cup {plot}, !.current = Some(plot)]

\* _deduplicate_plots(plot, subplots)
Deduplicated(doc, plot, subplots) ==
    [doc EXCEPT !.children = (@ \ subplots) \cup {plot}, !.current = Some(plot)]

\* gridplot(plot_arrangement): subplots are the plots of the arrangement
gridplot(subplots) ==
    /\ nplots < MaxPlots
    /\ nplots' = nplots + 1
    /\ _default_document' = Deduplicated(curdoc, nplots + 1, subplots)
    /\ lastOp' = Call("gridplot", [NoArg EXCEPT !.plots = subplots])
    /\ trace'  = <<NewPlot("GridPlot", nplots + 1)>>
                 \o PushOrSaveEffects(_default_document')
    /\ fig' = None
    /\ UNCHANGED <<_default_session, _default_file, _default_notebook>>

\* the caller assigns curdoc().autostore
set_autostore(value) ==
    /\ _default_document' = [curdoc EXCEPT !.autostore = value]
    /\ lastOp' = Call("set_autostore", [NoArg EXCEPT !.clear = value])
    /\ trace'  = <<>>
    /\ fig' = None
    /\ UNCHANGED <<_default_session, _default_file, _default_notebook, nplots>>

-----------------------------------------------------------------------------
(* show(), save() and push() as calls *)

show(obj, new, url) ==
    /\ lastOp' = Call("show", [NoArg EXCEPT !.obj = obj, !.new = Some(new), !.url = url])
    /\ trace'  = ShowEffects(curdoc, obj, new, url)
    /\ fig' = None
    /\ UNCHANGED <<globals, nplots>>

save(filename, resources, obj, title) ==
    /\ lastOp' = Call("save", [NoArg EXCEPT !.filename = filename, !.resources = resources,
                                            !.obj = obj, !.title = title])
    /\ trace'  = SaveEffects(curdoc, filename, resources, obj, title)
    /\ fig' = None
    /\ UNCHANGED <<globals, nplots>>

push(session, document) ==
    /\ lastOp' = Call("push", [NoArg EXCEPT !.session = session, !.document = document])
    /\ trace'  = PushEffects(curdoc, session, document)
    /\ fig' = None
    /\ UNCHANGED <<globals, nplots>>

-----------------------------------------------------------------------------
(* The deprecated accessors of the current plot, and load_object() *)

\* what an accessor answers: None, or <<"list">> for a list of objects of the plot
PlotList == Some("list")

\* _axis(*sides): "p = curplot(); if p is None: return None"
Axis(doc) == IF curplot(doc) = None THEN None ELSE PlotList

\* _grid(dimension), with the same test
Grid(doc) == IF curplot(doc) = None THEN None ELSE PlotList

\* legend(), with the same test
Legend(doc) == IF curplot(doc) = None THEN None ELSE PlotList

\* "return x": the value goes to the caller
ReturnEffects(x) == <<Return(IF x = None THEN "None" ELSE x[1])>>

\* "_list_attr_splat(a + b)": None has no "+", which is a TypeError
PlusEffects(a, b) ==
    IF a = None \/ b = None THEN <<Raise("TypeError")>> ELSE ReturnEffects(PlotList)

\* an accessor call: effects happen and no global changes (what @deprecated
\* reports, here as for curplot(), is not among the effects)
Accessor(name, effects) ==
    /\ lastOp' = Call(name, NoArg)
    /\ trace'  = effects
    /\ fig' = None
    /\ UNCHANGED <<globals, nplots>>

xaxis  == Accessor("xaxis", ReturnEffects(Axis(curdoc)))
yaxis  == Accessor("yaxis", ReturnEffects(Axis(curdoc)))
\* axis(): "return _list_attr_splat(xaxis() + yaxis())"
axis   == Accessor("axis", PlusEffects(Axis(curdoc), Axis(curdoc)))
legend == Accessor("legend", ReturnEffects(Legend(curdoc)))
xgrid  == Accessor("xgrid", ReturnEffects(Grid(curdoc)))
ygrid  == Accessor("ygrid", ReturnEffects(Grid(curdoc)))
\* grid(): "return _list_attr_splat(xgrid() + ygrid())"
grid   == Accessor("grid", PlusEffects(Grid(curdoc), Grid(curdoc)))

\* load_object(obj): "cursession().load_object(obj, curdoc())"; None has no
\* load_object, which is an AttributeError
LoadObjectEffects(doc, obj) ==
    IF cursession = None THEN <<Raise("AttributeError")>>
    ELSE <<LoadObject(cursession[1], obj, DocOf(doc))>>

load_object(obj) ==
    /\ lastOp' = Call("load_object", [NoArg EXCEPT !.obj = Some(obj)])
    /\ trace'  = LoadObjectEffects(curdoc, obj)
    /\ fig' = None
    /\ UNCHANGED <<globals, nplots>>

-----------------------------------------------------------------------------
(* The program *)

Opt(S) == {None} \cup {Some(x) : x \in S}

\* what a caller can pass as obj: nothing, a Document, a plot that exists,
\* or an object that is neither
Objects == {None, Some(UserDoc), Some(OtherObj)} \cup {Some(PlotObj(n)) : n \in 1..nplots}

Init ==
    /\ _default_document = Document(0)
    /\ _default_session  = None
    /\ _default_file     = None
    /\ _default_notebook = None
    /\ nplots = 0
    /\ fig = None
    /\ lastOp = Call("import", NoArg)
    /\ trace  = <<>>

\* One call, with its arguments drawn from the sets of A; A.plots is how many
\* Plot objects the calls may construct.
Calls(A) ==
    \/ reset_output
    \/ \E f \in A.filenames, t \in A.titles, a \in BOOLEAN, m \in A.modes, e \in A.exists :
          output_file(f, t, a, m, e)
    \/ \E d \in A.docnames, s \in A.sessions, u \in A.server_urls, n \in A.names,
          c \in A.clears, k \in A.keeps :
          output_server(d, s, u, n, c, k)
    \/ \E u \in A.notebook_urls, d \in A.notebook_docnames, s \in A.sessions,
          n \in A.names, k \in A.keeps :
          output_notebook(u, d, s, n, k)
    \/ \E t \in A.tools, x \in A.ranges, y \in A.ranges :
          nplots < A.plots /\ figure(t, x, y)
    \/ \E fresh \in BOOLEAN : (fresh => nplots < A.plots) /\ glyph(fresh)
    \/ \E ps \in SUBSET (1..nplots) : nplots < A.plots /\ gridplot(ps)
    \/ \E v \in A.autostores : set_autostore(v)
    \/ \E o \in Objects, n \in A.news, u \in A.show_urls : show(o, n, u)
    \/ \E f \in A.save_filenames, r \in A.save_resources, o \in Objects,
          t \in A.save_titles :
          save(f, r, o, t)
    \/ \E s \in A.push_sessions, d \in A.push_documents : push(s, d)

\* The arguments the calls are made with.  Few: the arguments that every
\* specification below draws from, each of which widens the ones it is about.
FewArgs ==
    [filenames |-> {"a.html"}, titles |-> {"Bokeh Plot"}, modes |-> {"inline"},
     exists |-> {FALSE},
     docnames |-> {"d1"}, sessions |-> {None}, server_urls |-> {Some("default")},
     names |-> {None}, clears |-> {TRUE}, keeps |-> {FALSE},
     notebook_urls |-> Opt(Urls), notebook_docnames |-> {None},
     autostores |-> {TRUE},
     news |-> {"tab"}, show_urls |-> {None},
     save_filenames |-> {None}, save_resources |-> {None}, save_titles |-> {None},
     push_sessions |-> {None}, push_documents |-> {None},
     tools |-> {StrTools(DEFAULT_TOOLS)}, ranges |-> {"auto"}, plots |-> FewPlots]

\* every output mode and every way show() can be called
Args ==
    [FewArgs EXCEPT !.filenames = Filenames, !.sessions = Opt({UserSession}),
                    !.clears = BOOLEAN, !.keeps = BOOLEAN, !.autostores = BOOLEAN,
                    !.news = NewModes, !.show_urls = Opt(Urls)]

\* every way output_file() and save() can be called
FileArgs ==
    [FewArgs EXCEPT !.filenames = Filenames, !.titles = Titles, !.modes = Modes,
                    !.exists = BOOLEAN,
                    !.save_filenames = Opt({"c.html"}), !.save_resources = Opt({"cdn"}),
                    !.save_titles = Opt({"Other Title"})]

\* every way output_server(), output_notebook() and push() can be called
ServerArgs ==
    [FewArgs EXCEPT !.docnames = Docnames, !.sessions = Opt({UserSession}),
                    !.server_urls = {Some("default")} \cup {Some(u) : u \in Urls},
                    !.names = Opt(Names), !.clears = BOOLEAN, !.keeps = BOOLEAN,
                    !.notebook_docnames = Opt({"d1"}),
                    !.push_sessions = Opt({UserSession}),
                    !.push_documents = Opt({UserDoc})]

Next == Calls(Args)

Spec == Init /\ [][Next]_vars

NextFile == Calls(FileArgs)

SpecFile == Init /\ [][NextFile]_vars

NextServer == Calls(ServerArgs)

SpecServer == Init /\ [][NextServer]_vars

\* every way figure(), the glyph wrappers and gridplot() can follow each other
GridArgs == [FewArgs EXCEPT !.plots = MaxPlots]

NextGrid == Calls(GridArgs)

SpecGrid == Init /\ [][NextGrid]_vars

\* the accessors and load_object(), called in every state of the globals
Accessors ==
    \/ xaxis \/ yaxis \/ axis
    \/ legend
    \/ xgrid \/ ygrid \/ grid
    \/ \E n \in 1..nplots : load_object(PlotObj(n))

NextMissing == Calls(FewArgs) \/ Accessors

SpecMissing == Init /\ [][NextMissing]_vars

\* Sequences of at most n elements of S
SeqsUpTo(S, n) == UNION {[1..k -> S] : k \in 0..n}

\* every way the tools of a Figure can be asked for
Lexemes   == {"pan", "box_zoom", "save", Comma, Blank}
ToolItems == {ToolItem("PanTool"), StrItem(<<"pan">>),
              StrItem(<<"save", Comma, "save">>), OtherItem}
ToolArgs  ==
    {StrTools(str) : str \in SeqsUpTo(Lexemes, MaxLen) \cup {DEFAULT_TOOLS}}
    \cup {ListTools(items) : items \in SeqsUpTo(ToolItems, MaxItems)}
Ranges    == {"auto", "factors", "numbers"}

\* a script whose first call makes a Figure
NextFigure ==
    /\ lastOp = Call("import", NoArg)
    /\ \E t \in ToolArgs, x \in Ranges, y \in Ranges : figure(t, x, y)

SpecFigure == Init /\ [][NextFigure]_vars

-----------------------------------------------------------------------------
(* Properties *)

\* what happened during the last call, without the arguments
Shape(tr) == [i \in 1..Len(tr) |-> tr[i].ev]

Happened(tr, ev) == \E i \in 1..Len(tr) : tr[i].ev = ev

\* the last call was show() with something to show: an explicit plot/widget or
\* Document, or no object and (in notebook mode) a current plot
Shown ==
    /\ lastOp.op = "show"
    /\ lastOp.args.obj # Some(OtherObj)
    /\ lastOp.args.obj = None /\ _default_notebook # None => curdoc.current # None

\* C1: a reset_output() step, from whatever state, ends with no default
\* session, no default file config, the notebook flag unset, and as the default
\* document an empty Document that is not the document of before.
C1_ResetOutput ==
    [][lastOp'.op = "reset_output" =>
          /\ _default_session' = None
          /\ _default_file' = None
          /\ _default_notebook' = None
          /\ _default_document'.children = {}
          /\ _default_document'.current = None
          /\ _default_document'.id # _default_document.id]_vars

\* reset_output() has been called
C1_Witness ==
    /\ lastOp.op = "reset_output"
    /\ _default_document.id > 0
    /\ nplots > 0

\* C2: the file config is the config of the last output_file() call, every
\* field of it, whether or not the file exists; and save() and show() without a
\* filename of their own write to and open the file of that config only.
C2_FileReplaced ==
    /\ lastOp.op = "output_file" =>
          _default_file = Some([filename  |-> lastOp.args.filename[1],
                                resources |-> lastOp.args.resources[1],
                                autosave  |-> lastOp.args.autosave,
                                title     |-> lastOp.args.title[1]])
    /\ lastOp.op \in {"save", "show"} /\ lastOp.args.filename = None
       /\ _default_file # None =>
          \A i \in 1..Len(trace) :
             /\ trace[i].ev = "write" => trace[i].s = _default_file[1].filename
             /\ trace[i].ev = "open" /\ trace[i].s = "file" =>
                   trace[i].s2 = _default_file[1].filename

\* output_file() has been called for a file that exists, with no default argument
C2_Witness ==
    /\ lastOp.op = "output_file"
    /\ lastOp.args.exists
    /\ _default_file = Some([filename |-> "b.html", resources |-> "cdn",
                             autosave |-> TRUE, title |-> "My Title"])

\* C3: show() with something to show takes one path.  With the notebook flag
\* and a session: one push to the session, then the autoload snippet is
\* published.  Else with the notebook flag: the notebook div is published and
\* nothing is pushed or saved.  Else with a session: one push, then the browser
\* opens the url that was passed, or else the session's object link.  Else
\* with a file config: the file of the config is written, then opened.
C3_ShowDispatch ==
    Shown =>
       IF _default_notebook # None /\ _default_session # None
       THEN /\ Shape(trace) = <<"store_document", "publish">>
            /\ trace[1].sess = _default_session
            /\ trace[2].s = "autoload_server"
       ELSE IF _default_notebook # None
       THEN /\ Shape(trace) = <<"publish">>
            /\ trace[1].s = "notebook_div"
       ELSE IF _default_session # None
       THEN /\ Shape(trace) = <<"store_document", "open">>
            /\ trace[1].sess = _default_session
            /\ IF lastOp.args.url # None
               THEN trace[2].s = "url" /\ trace[2].s2 = lastOp.args.url[1]
               ELSE trace[2].s = "object_link"
       ELSE IF _default_file # None
       THEN /\ Shape(trace) = <<"write", "open">>
            /\ trace[1].s = _default_file[1].filename
            /\ trace[2].s = "file"
            /\ trace[2].s2 = _default_file[1].filename
       ELSE trace = <<>>

\* show() has pushed and published with all three modes active
C3_Witness ==
    /\ Shown
    /\ _default_notebook # None /\ _default_session # None /\ _default_file # None
    /\ Shape(trace) = <<"store_document", "publish">>

\* C4, as stated: show() with something to show saves whenever a file config
\* is active, pushes whenever a session is active and publishes whenever the
\* notebook flag is set, whatever else is active.
C4_Original ==
    Shown =>
       /\ _default_file # None => Happened(trace, "write")
       /\ _default_session # None => Happened(trace, "store_document")
       /\ _default_notebook # None => Happened(trace, "publish")

\* C4, amended: show() with something to show pushes whenever a session is
\* active and publishes whenever the notebook flag is set, but saves only when
\* a file config is active and neither a session nor the notebook flag is.
C4_ShowPerMode ==
    Shown =>
       /\ Happened(trace, "store_document") <=> _default_session # None
       /\ Happened(trace, "publish") <=> _default_notebook # None
       /\ Happened(trace, "write") <=>
             _default_file # None /\ _default_session = None /\ _default_notebook = None

\* show() with a file config and a session active, and no notebook flag: it
\* has pushed and not saved
C4_Witness ==
    /\ Shown
    /\ _default_file # None /\ _default_session # None /\ _default_notebook = None
    /\ Happened(trace, "store_document")
    /\ ~Happened(trace, "write")

\* the url and the name output_server() makes a session with, from its arguments
ArgUrl(args)  == IF args.url = Some("default") THEN Some(DEFAULT_SERVER_URL) ELSE args.url
ArgName(args) == IF args.name = None THEN ArgUrl(args) ELSE args.name

\* C5, as stated: after any output_server(docname, ...) call cursession() is a
\* session, which the call bound to docname with use_doc and loaded the current
\* document into, with or without a session argument; and a session is made
\* only when there is no default session.
C5_Original ==
    lastOp.op = "output_server" =>
       /\ cursession # None
       /\ \E i \in 1..Len(trace) :
             /\ trace[i].ev = "use_doc"
             /\ trace[i].sess = cursession
             /\ trace[i].s = lastOp.args.docname[1]
       /\ \E i \in 1..Len(trace) :
             /\ trace[i].ev = "load_document"
             /\ trace[i].sess = cursession

\* C6, as stated: output_server() without a session argument replaces the
\* default session: afterwards cursession() is a session for the url and name
\* of that call.
C6_Original ==
    lastOp.op = "output_server" /\ lastOp.args.session = None =>
       cursession = Some([name |-> ArgName(lastOp.args), root_url |-> ArgUrl(lastOp.args)])

\* C7, as stated: an output_notebook() step sets the notebook flag; given a
\* session, url or name it leaves a session active too, so that show() takes
\* the push and autoload path; given none of them it leaves the session as it was.
C7_Original ==
    [][lastOp'.op = "output_notebook" =>
          /\ _default_notebook' # None
          /\ IF \/ lastOp'.args.session # None
                \/ lastOp'.args.url # None
                \/ lastOp'.args.name # None
             THEN /\ _default_session' # None
                  /\ Happened(trace', "use_doc")
             ELSE /\ _default_session' = _default_session
                  /\ ~Happened(trace', "use_doc")]_vars

\* C8: a save() step with no argument while there is no file config gives the
\* "nothing saved" warning and nothing else (no other warning, no file written,
\* no exception), and leaves the four globals as they were.
C8_SaveNothing ==
    [][/\ lastOp'.op = "save"
       /\ lastOp'.args = NoArg
       /\ _default_file = None
       => /\ trace' = <<Warn("nothing saved")>>
          /\ globals' = globals]_vars

\* save() has been called with no argument, with a current plot and no file config
C8_Witness ==
    /\ lastOp.op = "save"
    /\ lastOp.args = NoArg
    /\ _default_file = None
    /\ curdoc.current # None
    /\ Shape(trace) = <<"warn">>

\* C9: push() with no session argument and no default session warns, stores
\* nothing and raises nothing; with a session argument, or else a default
\* session, it calls store_document once, on that session, and nothing else.
C9_PushOnce ==
    lastOp.op = "push" =>
       IF lastOp.args.session = None /\ cursession = None
       THEN trace = <<Warn("nothing pushed")>>
       ELSE /\ Shape(trace) = <<"store_document">>
            /\ trace[1].sess = IF lastOp.args.session # None
                               THEN lastOp.args.session ELSE cursession

\* push() has stored on the session it was passed, not on the default one
C9_Witness ==
    /\ lastOp.op = "push"
    /\ lastOp.args.session # None
    /\ cursession # None
    /\ cursession # lastOp.args.session
    /\ Shape(trace) = <<"store_document">>
    /\ trace[1].sess = lastOp.args.session

\* C10, as stated: push() stores the document it was passed, and the current
\* default document only when it was passed none.
C10_Original ==
    lastOp.op = "push" =>
       \A i \in 1..Len(trace) :
          trace[i].ev = "store_document" =>
             trace[i].obj = IF lastOp.args.document # None
                            THEN lastOp.args.document ELSE Some(DocOf(curdoc))


-----------------------------------------------------------------------------
(* The tools of a Figure *)

\* the last call made a Figure
Made == lastOp.op = "figure" /\ fig # None

PanZoomClasses == {"PanTool", "WheelZoomTool", "BoxZoomTool"}

\* how many elements of the sequence satisfy Test
Count(seq, Test(_)) == Cardinality({i \in 1..Len(seq) : Test(seq[i])})

\* C11, as stated: a Figure made with a categorical x or y range has no pan
\* and no zoom tool among its tools, however the tools were asked for.
C11_Original ==
    Made /\ "FactorRange" \in {fig[1].x_range, fig[1].y_range}
    => \A i \in 1..Len(fig[1].tools) : fig[1].tools[i].cls \notin PanZoomClasses

\* the identifiers asked for: the names of the tools string, or of the strings
\* of the tools list, without the empty ones
AskedNames(tools) ==
    SelectSeq(SplitTools(IF tools.form = "list" THEN ListString(tools.items)
                         ELSE tools.str),
              LAMBDA tok : tok # <<>>)

\* the names that are asked for and stay: every name, but for the pan and zoom
\* names when a range is categorical
KeptNames(tools, f) ==
    SelectSeq(AskedNames(tools),
              LAMBDA tok : ~("FactorRange" \in {f.x_range, f.y_range} /\ HasPanZoom(tok)))

\* how many tools of class cls are asked for and stay: as instances, as names
AskedFor(tools, f, cls) ==
    Count(tools.items, LAMBDA it : it.kind = "Tool" /\ it.cls = cls)
    + Count(KeptNames(tools, f), LAMBDA tok : ToolClassOf(tok[1]) = cls)

\* C12: a Figure keeps one tool for every identifier that was asked for and
\* not removed, repeats included; there is one 'repeated' warning exactly when
\* some class of tool occurs twice or more, none otherwise, and it names each
\* such class once and no other class.
C12_Repeated ==
    Made =>
      LET f     == fig[1]
          tools == lastOp.args.tools[1]
          Occurs(cls) == Count(f.tools, LAMBDA t : t.cls = cls)
          classes == {ToolClasses[i] : i \in 1..Len(ToolClasses)}
      IN  /\ \A cls \in classes : Occurs(cls) = AskedFor(tools, f, cls)
          /\ \A cls \in classes :
                Count(f.repeated, LAMBDA r : r = cls) = IF Occurs(cls) >= 2 THEN 1 ELSE 0
          /\ Count(trace, LAMBDA e : e = Warn("tools repeated"))
                = IF \E cls \in classes : Occurs(cls) >= 2 THEN 1 ELSE 0

\* Figure(tools="pan,pan,save"): two pan tools and a save tool, PanTool named
C12_Witness ==
    /\ Made
    /\ lastOp.args.tools = Some(StrTools(<<"pan", Comma, "pan", Comma, "save">>))
    /\ Len(fig[1].tools) = 3
    /\ fig[1].repeated = <<"PanTool">>
    /\ trace = <<Warn("tools repeated"), NewPlot("Figure", nplots)>>


-----------------------------------------------------------------------------
(* gridplot() and the glyph wrappers *)

\* C13: a gridplot() step ends with no plot of the arrangement among the
\* children of the current document, with the new grid among them and as the
\* current plot, and with every child of before that is not in the arrangement.
C13_Gridplot ==
    [][lastOp'.op = "gridplot" =>
          LET subplots == lastOp'.args.plots
              newgrid  == nplots'
              doc      == _default_document'
          IN  /\ subplots \cap doc.children = {}
              /\ newgrid \in doc.children
              /\ doc.current = Some(newgrid)
              /\ _default_document.children \ subplots \subseteq doc.children]_vars

\* gridplot([[p1]]) in a document whose children were p1 and p2: the children
\* are p2 and the grid, and the grid is current
C13_Witness ==
    /\ lastOp.op = "gridplot"
    /\ lastOp.args.plots = {1}
    /\ _default_document.id = 0
    /\ _default_document.children = {2, 3}
    /\ _default_document.current = Some(3)


\* C14: a glyph wrapper call and a gridplot() call first draw or compose on
\* the current document; then comes a push of it to the default session exactly
\* when there is one and the document has autostore set; then a save() to the
\* file of the config exactly when there is a config with autosave set (which
\* writes the document, or warns when the document has no current plot); and
\* nothing else happens.
C14_PushThenSave ==
    lastOp.op \in {"glyph", "gridplot"} =>
      LET doc    == _default_document
          pushes == _default_session # None /\ doc.autostore
          saves  == _default_file # None /\ _default_file[1].autosave
          file   == _default_file[1]
          after  == (IF pushes THEN <<Store(_default_session[1], DocObj(doc.id))>>
                     ELSE <<>>)
                    \o (IF ~saves THEN <<>>
                        ELSE IF doc.current = None THEN <<Warn("no plot to save")>>
                        ELSE <<WriteFile(file.filename, DocObj(doc.id),
                                         file.resources, file.title)>>)
      IN  \E k \in 1..Len(trace) :
             /\ \A i \in 1..k : trace[i].ev \in {"new_plot", "draw"}
             /\ trace[k].ev = IF lastOp.op = "glyph" THEN "draw" ELSE "new_plot"
             /\ SubSeq(trace, k + 1, Len(trace)) = after

\* a glyph call with a session, autostore and an autosave config: it draws,
\* then pushes, then saves
C14_Witness ==
    /\ lastOp.op = "glyph"
    /\ Shape(trace) = <<"draw", "store_document", "write">>


-----------------------------------------------------------------------------
(* save() of an object *)

\* the last call was save() of the object obj
SavedObj(obj) == lastOp.op = "save" /\ lastOp.args.obj = Some(obj)

\* the file save() is to write: the argument, else the file of the config
SaveTarget ==
    IF lastOp.args.filename # None THEN lastOp.args.filename
    ELSE IF _default_file # None THEN Some(_default_file[1].filename)
    ELSE None

\* C15, as stated: save() of an object that is no plot, no widget and no
\* Document raises and writes nothing, in every state of the globals.
C15_Original ==
    SavedObj(OtherObj) => Raised(trace) /\ ~Happened(trace, "write")

\* C15, amended: save() of an object that is no plot, no widget and no Document
\* writes nothing; it raises RuntimeError when there is a filename (the
\* argument, or the file of the config), and otherwise only warns that nothing
\* is saved.  With a filename, save() of a Document writes that Document, and
\* save() of a plot writes a new Document, to that file.
C15_SaveObject ==
    /\ SavedObj(OtherObj) =>
          /\ ~Happened(trace, "write")
          /\ IF SaveTarget = None THEN trace = <<Warn("nothing saved")>>
             ELSE trace[Len(trace)] = Raise("RuntimeError")
    /\ SavedObj(UserDoc) /\ SaveTarget # None =>
          /\ trace[Len(trace)].ev = "write"
          /\ trace[Len(trace)].s = SaveTarget[1]
          /\ trace[Len(trace)].obj = Some(UserDoc)
    /\ \A n \in 1..nplots : SavedObj(PlotObj(n)) /\ SaveTarget # None =>
          /\ trace[Len(trace)].ev = "write"
          /\ trace[Len(trace)].s = SaveTarget[1]
          /\ trace[Len(trace)].obj = Some(WrapDoc(n))
          /\ WrapDoc(n) \notin {UserDoc, DocObj(_default_document.id)}

\* save(obj=<other>) with no filename argument while a file config is active
C15_Witness ==
    /\ SavedObj(OtherObj)
    /\ lastOp.args.filename = None
    /\ _default_file # None
    /\ Raised(trace)


-----------------------------------------------------------------------------
(* What only reset_output() does *)

\* C16: a step of any call but reset_output() leaves a default session, a file
\* config and a notebook flag that were set still set, and leaves the default
\* document the same Document object; so the globals go back to their initial
\* values in reset_output() steps only.
C16_OnlyReset ==
    [][lastOp'.op # "reset_output" =>
          /\ _default_session # None  => _default_session' # None
          /\ _default_file # None     => _default_file' # None
          /\ _default_notebook # None => _default_notebook' # None
          /\ DocOf(_default_document') = DocOf(_default_document)]_vars

\* output_server(..., clear=True) called with the three modes active and plots
\* in the document: the modes are active and the document is the one of Init
C16_Witness ==
    /\ lastOp.op = "output_server" /\ lastOp.args.clear
    /\ _default_session # None /\ _default_file # None /\ _default_notebook # None
    /\ nplots > 0
    /\ DocOf(_default_document) = DocObj(0)


-----------------------------------------------------------------------------
(* Calls made while what they need is missing *)

\* what a call does to the outside: a push, a save, a display, a browser
Acted(tr) ==
    \E i \in 1..Len(tr) : tr[i].ev \in {"store_document", "write", "publish", "open"}

\* C17, as stated: show(), save() and push() without an object or argument of
\* their own, load_object(), axis() and grid(), called while the current plot,
\* the session or the file config they need is missing, do not raise and do
\* not push, save, display or open anything.
C17_Original ==
    LET noplot    == _default_document.current = None
        nosession == _default_session = None
        nofile    == _default_file = None
        args      == lastOp.args
        missing   ==
            \/ lastOp.op \in {"axis", "grid"} /\ noplot
            \/ lastOp.op = "load_object" /\ nosession
            \/ lastOp.op = "push" /\ args.session = None /\ nosession
            \/ lastOp.op = "save" /\ args.filename = None /\ nofile
            \/ lastOp.op = "show" /\ args.obj = None /\ _default_notebook # None /\ noplot
    IN  missing => ~Raised(trace) /\ ~Acted(trace)

====
